---- MODULE Spec2Model ----
(***************************************************************************)
(* Model of the RAT25F lexer (src/lexer_rat25f.py): class Lexer, its       *)
(* cursor, its recognizers and next_token.  A character is a string of     *)
(* length one; the empty string "" is what peek() returns past the end of  *)
(* the text.  A text and a lexeme are sequences of characters.  Two        *)
(* characters outside ASCII stand for the classes that str.isdigit and     *)
(* str.isalnum accept beyond '0'..'9' and the letters: "U+0663"            *)
(* (ARABIC-INDIC DIGIT THREE: isdigit and isalnum, not isalpha) and        *)
(* "U+00BD" (VULGAR FRACTION ONE HALF: isalnum only).                      *)
(***************************************************************************)
EXTENDS Integers, Sequences, FiniteSets

\* ------------------------------------------------------------------ bounds

\* Longest text drawn from a character family.
MaxLen == 4

\* Calls of next_token the caller makes after the first EOF.
MaxEof == 1

\* --------------------------------------------------------- static tables

KEYWORDS ==
  { <<"w","h","i","l","e">>, <<"i","f">>, <<"e","l","s","e">>, <<"f","o","r">>,
    <<"i","n","t">>, <<"f","l","o","a","t">>, <<"b","o","o","l">>,
    <<"t","r","u","e">>, <<"f","a","l","s","e">>,
    <<"f","u","n","c","t","i","o","n">>, <<"r","e","t","u","r","n">>,
    <<"r","e","a","d">>, <<"w","r","i","t","e">>, <<"t","h","e","n">>,
    <<"f","i">>, <<"d","o">>, <<"o","d">> }

SEPARATORS == { "(", ")", "{", "}", "[", "]", ",", ";", ":" }

MULTI_CHAR_OPS ==
  { <<"<","=">>, <<">","=">>, <<"=","=">>, <<"!","=">>, <<"&","&">>, <<"|","|">> }

SINGLE_CHAR_OPS == { "+", "-", "*", "/", "%", "=", "<", ">", "!" }

\* ------------------------------------------------- character predicates

AsciiLetters ==
  { "a","b","c","d","e","f","g","h","i","j","k","l","m",
    "n","o","p","q","r","s","t","u","v","w","x","y","z",
    "A","B","C","D","E","F","G","H","I","J","K","L","M",
    "N","O","P","Q","R","S","T","U","V","W","X","Y","Z" }

AsciiDigits == { "0","1","2","3","4","5","6","7","8","9" }

\* str.isalpha on one character ("" is not a letter).
is_letter(ch) == ch \in AsciiLetters

\* str.isdigit on one character: the decimal digits and the digits outside
\* ASCII, here "U+0663".
is_digit(ch) == ch \in AsciiDigits \cup { "U+0663" }

\* str.isalnum on one character: isalpha, isdecimal, isdigit or isnumeric;
\* "U+00BD" is numeric and neither a letter nor a digit.
is_alnum(ch) == is_letter(ch) \/ is_digit(ch) \/ ch = "U+00BD"

\* str.isspace on one character.
isspace(ch) == ch \in { " ", "\t", "\n", "\r", "\f" }

\* x in "123456789" for a string x of length at most one: Python's substring
\* test, which the empty string passes.
InNonzeroDigits(ch) == ch = "" \/ ch \in AsciiDigits \ { "0" }

\* A character as a string: "" contributes nothing to a concatenation.
Str(ch) == IF ch = "" THEN << >> ELSE << ch >>

\* --------------------------------------------------------------- inputs

\* The families of characters texts are drawn from: a text is a sequence
\* over one family.
Families ==
  { { "1", ".", "e", "+" },
    { "0", ".", "E", "-" },
    { "0", "1", ".", "U+0663", " " },
    { "i", "f", "_", "1", "U+00BD" },
    { "/", "*", "\n", "a", " " },
    { "\"", "\n", "a", " " },
    { "=", "<", "!", "&", "|" },
    { ">", "%", "(", ";", "@" },
    { "1", "a", "/", ".", " " } }

\* What may follow the fraction of a real number.
ExponentChars == { "1", "e", "E", "+", "-" }

TextsOver(F, len) == UNION { [1..k -> F] : k \in 0..len }

\* The real number 1.1 followed by characters of an exponent.
RealTexts == { << "1", ".", "1" >> \o t : t \in TextsOver(ExponentChars, MaxLen) }

Texts == UNION { TextsOver(F, MaxLen) : F \in Families } \cup RealTexts

\* ---------------------------------------------------------------- state

VARIABLES
  text,     \* Lexer.text
  i,        \* Lexer.i, the cursor
  pc,       \* where control is: "idle" between calls of next_token
  fn,       \* index of the recognizer the dispatch loop is trying (1..5)
  here,     \* next_token's saved cursor (here = self.i)
  start,    \* the running recognizer's saved cursor (start, i0)
  called,   \* the cursor when the running call of next_token was made
  at,       \* the cursor when skip_whitespace had finished in that call
  skipped,  \* positions skip_whitespace has advanced over
  tokens,   \* the tokens next_token has returned, in order
  rows,     \* lex_file's rows
  drv       \* where lex_file is: "none" when another caller drives the Lexer

vars ==
  << text, i, pc, fn, here, start, called, at, skipped, tokens, rows, drv >>

\* Lexer.n
n == Len(text)

\* Lexer.peek
peek(k) == IF i + k < n THEN text[i + k + 1] ELSE ""

\* Mutant of eof: the end is reached only past the last position.
eof_late == i > n

\* Lexer.eof
eof == i >= n

\* text[a:b] for 0 <= a, clipped as Python clips a slice
Slice(a, b) == SubSeq(text, a + 1, IF b > n THEN n ELSE b)

\* Lexer.__init__
Init ==
  /\ text \in Texts
  /\ i = 0
  /\ pc = "idle"
  /\ fn = 0
  /\ here = 0
  /\ start = 0
  /\ called = 0
  /\ at = 0
  /\ skipped = {}
  /\ tokens = << >>
  /\ rows = << >>
  /\ drv = "none"

\* A token as next_token returns it, with the cursor positions of the call.
Token(type, lexeme, end) ==
  [ type |-> type, lexeme |-> lexeme, called |-> called, at |-> at, end |-> end ]

\* return (type, lexeme) from next_token with the cursor left at end
Return(type, lexeme, end) ==
  /\ tokens' = Append(tokens, Token(type, lexeme, end))
  /\ i' = end
  /\ pc' = "idle"

\* A recognizer returns None with the cursor left at pos.
NoMatch(pos) ==
  /\ i' = pos
  /\ pc' = "nomatch"
  /\ UNCHANGED tokens

EofTokens == { k \in 1..Len(tokens) : tokens[k].type = "EOF" }

\* ------------------------------------------------------------ next_token

\* The caller calls next_token.
next_token_call ==
  /\ pc = "idle"
  /\ Cardinality(EofTokens) <= MaxEof
  /\ pc' = "loop"
  /\ called' = i
  /\ at' = i
  /\ UNCHANGED << text, rows, drv, i, fn, here, start, skipped, tokens >>

\* while not self.eof(): the loop is not entered; return (TokenType.EOF, "")
next_token_eof ==
  /\ pc = "loop"
  /\ eof
  /\ Return("EOF", << >>, i)
  /\ UNCHANGED << text, rows, drv, fn, here, start, called, at, skipped >>

\* while not self.eof(): the loop body starts with skip_whitespace
next_token_loop ==
  /\ pc = "loop"
  /\ ~eof
  /\ pc' = "ws"
  /\ UNCHANGED << text, rows, drv, i, fn, here, start, called, at, skipped, tokens >>

\* skip_whitespace: one advance of its loop
skip_whitespace_step ==
  /\ pc = "ws"
  /\ ~eof /\ isspace(peek(0))
  /\ i' = i + 1
  /\ skipped' = skipped \cup { i }
  /\ UNCHANGED << text, rows, drv, pc, fn, here, start, called, at, tokens >>

\* skip_whitespace: its loop ends
skip_whitespace_done ==
  /\ pc = "ws"
  /\ ~(~eof /\ isspace(peek(0)))
  /\ pc' = "com"
  /\ at' = i
  /\ UNCHANGED << text, rows, drv, i, fn, here, start, called, skipped, tokens >>

\* --------------------------------------------------------- skip_comments

\* if self.peek() == "/" and self.peek(1) == "/": start = self.i
skip_comments_line ==
  /\ pc = "com"
  /\ peek(0) = "/" /\ peek(1) = "/"
  /\ start' = i
  /\ pc' = "linecom"
  /\ UNCHANGED << text, rows, drv, i, fn, here, called, at, skipped, tokens >>

\* Mutant of skip_comments_line_step: the loop does not stop at a newline.
skip_comments_line_step_over ==
  /\ pc = "linecom"
  /\ ~eof
  /\ i' = i + 1
  /\ UNCHANGED << text, rows, drv, pc, fn, here, start, called, at, skipped, tokens >>

\* while not self.eof() and self.peek() != "\n": self.advance()
skip_comments_line_step ==
  /\ pc = "linecom"
  /\ ~eof /\ peek(0) # "\n"
  /\ i' = i + 1
  /\ UNCHANGED << text, rows, drv, pc, fn, here, start, called, at, skipped, tokens >>

\* return (TokenType.COMMENT, self.text[start:self.i])
skip_comments_line_return ==
  /\ pc = "linecom"
  /\ ~(~eof /\ peek(0) # "\n")
  /\ Return("COMMENT", Slice(start, i), i)
  /\ UNCHANGED << text, rows, drv, fn, here, start, called, at, skipped >>

\* Mutant of skip_comments_block: the opening advances over one character,
\* so the '*' of the opening can close the comment.
skip_comments_block_one ==
  /\ pc = "com"
  /\ ~(peek(0) = "/" /\ peek(1) = "/")
  /\ peek(0) = "/" /\ peek(1) = "*"
  /\ start' = i
  /\ i' = i + 1
  /\ pc' = "blockcom"
  /\ UNCHANGED << text, rows, drv, fn, here, called, at, skipped, tokens >>

\* if self.peek() == "/" and self.peek(1) == "*": start = self.i; advance(2)
skip_comments_block ==
  /\ pc = "com"
  /\ ~(peek(0) = "/" /\ peek(1) = "/")
  /\ peek(0) = "/" /\ peek(1) = "*"
  /\ start' = i
  /\ i' = i + 2
  /\ pc' = "blockcom"
  /\ UNCHANGED << text, rows, drv, fn, here, called, at, skipped, tokens >>

\* while not self.eof() and not (peek() == "*" and peek(1) == "/"): advance()
skip_comments_block_step ==
  /\ pc = "blockcom"
  /\ ~eof /\ ~(peek(0) = "*" /\ peek(1) = "/")
  /\ i' = i + 1
  /\ UNCHANGED << text, rows, drv, pc, fn, here, start, called, at, skipped, tokens >>

\* Mutant of BlockEnd: the closing advance without the test for the end.
BlockEnd_unchecked == i + 2

\* The cursor skip_comments leaves after the block comment's loop:
\* if not self.eof(): self.advance(2)
BlockEnd == IF ~eof THEN i + 2 ELSE i

\* if not self.eof(): advance(2); return (COMMENT, self.text[start:self.i])
skip_comments_block_return ==
  /\ pc = "blockcom"
  /\ ~(~eof /\ ~(peek(0) = "*" /\ peek(1) = "/"))
  /\ Return("COMMENT", Slice(start, BlockEnd), BlockEnd)
  /\ UNCHANGED << text, rows, drv, fn, here, start, called, at, skipped >>

\* Mutant of NoCommentHere: the result of skip_comments is not looked at.
NoCommentHere_always == TRUE

NoCommentHere ==
  /\ ~(peek(0) = "/" /\ peek(1) = "/")
  /\ ~(peek(0) = "/" /\ peek(1) = "*")

\* Mutant of next_token_break: the test for the end after skip_comments is
\* missing and the recognizers run at the end of the text.
next_token_break_missing ==
  /\ pc = "com"
  /\ NoCommentHere
  /\ eof
  /\ fn' = 1
  /\ here' = i
  /\ pc' = "try"
  /\ UNCHANGED << text, rows, drv, i, start, called, at, skipped, tokens >>

\* skip_comments returns None and self.eof(): break, return (EOF, "")
next_token_break ==
  /\ pc = "com"
  /\ NoCommentHere
  /\ eof
  /\ Return("EOF", << >>, i)
  /\ UNCHANGED << text, rows, drv, fn, here, start, called, at, skipped >>

\* skip_comments returns None, not eof: the for loop starts with lex_real,
\* here = self.i
next_token_dispatch ==
  /\ pc = "com"
  /\ NoCommentHere
  /\ ~eof
  /\ fn' = 1
  /\ here' = i
  /\ pc' = "try"
  /\ UNCHANGED << text, rows, drv, i, start, called, at, skipped, tokens >>

\* -------------------------------------------------------------- lex_real

\* start = self.i; i0 = self.i; if not is_digit(self.peek()): return None
lex_real_enter ==
  /\ pc = "try" /\ fn = 1
  /\ start' = i
  /\ IF ~is_digit(peek(0))
       THEN NoMatch(i)
       ELSE /\ pc' = "real_int"
            /\ UNCHANGED << i, tokens >>
  /\ UNCHANGED << text, rows, drv, fn, here, called, at, skipped >>

\* while not self.eof() and is_digit(self.peek()): self.advance()
lex_real_int_step ==
  /\ pc = "real_int"
  /\ ~eof /\ is_digit(peek(0))
  /\ i' = i + 1
  /\ UNCHANGED << text, rows, drv, pc, fn, here, start, called, at, skipped, tokens >>

\* if self.peek() != ".": self.i = i0; return None.  Else self.advance()
lex_real_dot ==
  /\ pc = "real_int"
  /\ ~(~eof /\ is_digit(peek(0)))
  /\ IF peek(0) # "."
       THEN NoMatch(start)
       ELSE /\ i' = i + 1
            /\ pc' = "real_dot"
            /\ UNCHANGED tokens
  /\ UNCHANGED << text, rows, drv, fn, here, start, called, at, skipped >>

\* if not is_digit(self.peek()): self.i = i0; return None
lex_real_frac ==
  /\ pc = "real_dot"
  /\ IF ~is_digit(peek(0))
       THEN NoMatch(start)
       ELSE /\ pc' = "real_frac"
            /\ UNCHANGED << i, tokens >>
  /\ UNCHANGED << text, rows, drv, fn, here, start, called, at, skipped >>

\* while not self.eof() and is_digit(self.peek()): self.advance()
lex_real_frac_step ==
  /\ pc = "real_frac"
  /\ ~eof /\ is_digit(peek(0))
  /\ i' = i + 1
  /\ UNCHANGED << text, rows, drv, pc, fn, here, start, called, at, skipped, tokens >>

\* if self.peek() in ("e", "E"): self.advance()
lex_real_exp ==
  /\ pc = "real_frac"
  /\ ~(~eof /\ is_digit(peek(0)))
  /\ peek(0) \in { "e", "E" }
  /\ i' = i + 1
  /\ pc' = "real_exp"
  /\ UNCHANGED << text, rows, drv, fn, here, start, called, at, skipped, tokens >>

\* no exponent: return (TokenType.REAL, self.text[start:self.i])
lex_real_return ==
  /\ pc = "real_frac"
  /\ ~(~eof /\ is_digit(peek(0)))
  /\ peek(0) \notin { "e", "E" }
  /\ Return("REAL", Slice(start, i), i)
  /\ UNCHANGED << text, rows, drv, fn, here, start, called, at, skipped >>

\* Mutant of lex_real_exp_sign: only '+' is taken as the sign.
lex_real_exp_sign_plus ==
  /\ pc = "real_exp"
  /\ i' = IF peek(0) = "+" THEN i + 1 ELSE i
  /\ pc' = "real_exp_first"
  /\ UNCHANGED << text, rows, drv, fn, here, start, called, at, skipped, tokens >>

\* if self.peek() in ("+", "-"): self.advance()
lex_real_exp_sign ==
  /\ pc = "real_exp"
  /\ i' = IF peek(0) \in { "+", "-" } THEN i + 1 ELSE i
  /\ pc' = "real_exp_first"
  /\ UNCHANGED << text, rows, drv, fn, here, start, called, at, skipped, tokens >>

\* if not is_digit(self.peek()): self.i = i0; return None
lex_real_exp_first ==
  /\ pc = "real_exp_first"
  /\ IF ~is_digit(peek(0))
       THEN NoMatch(start)
       ELSE /\ pc' = "real_exp_digits"
            /\ UNCHANGED << i, tokens >>
  /\ UNCHANGED << text, rows, drv, fn, here, start, called, at, skipped >>

\* while not self.eof() and is_digit(self.peek()): self.advance()
lex_real_exp_step ==
  /\ pc = "real_exp_digits"
  /\ ~eof /\ is_digit(peek(0))
  /\ i' = i + 1
  /\ UNCHANGED << text, rows, drv, pc, fn, here, start, called, at, skipped, tokens >>

\* return (TokenType.REAL, self.text[start:self.i])
lex_real_exp_return ==
  /\ pc = "real_exp_digits"
  /\ ~(~eof /\ is_digit(peek(0)))
  /\ Return("REAL", Slice(start, i), i)
  /\ UNCHANGED << text, rows, drv, fn, here, start, called, at, skipped >>

\* ----------------------------------------------------------- lex_integer

\* if not is_digit(self.peek()): return None.  Else start = self.i
lex_integer_enter ==
  /\ pc = "try" /\ fn = 2
  /\ IF ~is_digit(peek(0))
       THEN NoMatch(i) /\ UNCHANGED start
       ELSE /\ start' = i
            /\ pc' = "int_first"
            /\ UNCHANGED << i, tokens >>
  /\ UNCHANGED << text, rows, drv, fn, here, called, at, skipped >>

\* Mutant of lex_integer_zero: '0' starts a greedy run like any other digit.
lex_integer_zero_greedy ==
  /\ pc = "int_first"
  /\ peek(0) = "0"
  /\ i' = i + 1
  /\ pc' = "int_run"
  /\ UNCHANGED << text, rows, drv, fn, here, start, called, at, skipped, tokens >>

\* if self.peek() == "0": self.advance()
lex_integer_zero ==
  /\ pc = "int_first"
  /\ peek(0) = "0"
  /\ i' = i + 1
  /\ pc' = "int_zero"
  /\ UNCHANGED << text, rows, drv, fn, here, start, called, at, skipped, tokens >>

\* Mutant of ZeroRejected: a '0' that a digit follows is rejected too.
ZeroRejected_digit == peek(0) = "." \/ is_digit(peek(0))

\* What lex_integer does after consuming '0': a dot next defers to lex_real.
ZeroRejected == peek(0) = "."

\* if self.peek() != ".": return (INTEGER, self.text[start:self.i])
\* else: self.i = start; return None
lex_integer_zero_decide ==
  /\ pc = "int_zero"
  /\ IF ZeroRejected
       THEN NoMatch(start)
       ELSE Return("INTEGER", Slice(start, i), i)
  /\ UNCHANGED << text, rows, drv, fn, here, start, called, at, skipped >>

\* if self.peek() in "123456789": self.advance()
lex_integer_nonzero ==
  /\ pc = "int_first"
  /\ peek(0) # "0"
  /\ InNonzeroDigits(peek(0))
  /\ i' = i + 1
  /\ pc' = "int_run"
  /\ UNCHANGED << text, rows, drv, fn, here, start, called, at, skipped, tokens >>

\* a digit that is neither "0" nor in "123456789": the final return None
lex_integer_reject ==
  /\ pc = "int_first"
  /\ peek(0) # "0"
  /\ ~InNonzeroDigits(peek(0))
  /\ NoMatch(i)
  /\ UNCHANGED << text, rows, drv, fn, here, start, called, at, skipped >>

\* while not self.eof() and is_digit(self.peek()): self.advance()
lex_integer_run_step ==
  /\ pc = "int_run"
  /\ ~eof /\ is_digit(peek(0))
  /\ i' = i + 1
  /\ UNCHANGED << text, rows, drv, pc, fn, here, start, called, at, skipped, tokens >>

\* Mutant of RunRejected: the run is kept whatever follows it.
RunRejected_never == FALSE

\* What lex_integer does after the greedy run: a dot next discards the run.
RunRejected == peek(0) = "."

\* if self.peek() == ".": self.i = start; return None
\* return (TokenType.INTEGER, self.text[start:self.i])
lex_integer_run_decide ==
  /\ pc = "int_run"
  /\ ~(~eof /\ is_digit(peek(0)))
  /\ IF RunRejected
       THEN NoMatch(start)
       ELSE Return("INTEGER", Slice(start, i), i)
  /\ UNCHANGED << text, rows, drv, fn, here, start, called, at, skipped >>

\* -------------------------------------------------------- lex_identifier

\* if not is_letter(self.peek()): return None.  start = self.i; advance()
lex_identifier_enter ==
  /\ pc = "try" /\ fn = 3
  /\ IF ~is_letter(peek(0))
       THEN NoMatch(i) /\ UNCHANGED start
       ELSE /\ start' = i
            /\ i' = i + 1
            /\ pc' = "ident"
            /\ UNCHANGED tokens
  /\ UNCHANGED << text, rows, drv, fn, here, called, at, skipped >>

\* The test of lex_identifier's loop: is_alnum(ch) or ch == "_"
IdentifierChar(ch) == is_alnum(ch) \/ ch = "_"

\* while not self.eof(): if is_alnum(ch) or ch == "_": self.advance()
lex_identifier_step ==
  /\ pc = "ident"
  /\ ~eof /\ IdentifierChar(peek(0))
  /\ i' = i + 1
  /\ UNCHANGED << text, rows, drv, pc, fn, here, start, called, at, skipped, tokens >>

\* KEYWORD if lexeme in KEYWORDS, else IDENTIFIER
IdentifierType(lexeme) == IF lexeme \in KEYWORDS THEN "KEYWORD" ELSE "IDENTIFIER"

\* else: break; lexeme = self.text[start:self.i]; return the token
lex_identifier_return ==
  /\ pc = "ident"
  /\ ~(~eof /\ IdentifierChar(peek(0)))
  /\ Return(IdentifierType(Slice(start, i)), Slice(start, i), i)
  /\ UNCHANGED << text, rows, drv, fn, here, start, called, at, skipped >>

\* ------------------------------------------------------------ lex_string

\* if self.peek() != '"': return None.  start = self.i; self.advance()
lex_string_enter ==
  /\ pc = "try" /\ fn = 4
  /\ IF peek(0) # "\""
       THEN NoMatch(i) /\ UNCHANGED start
       ELSE /\ start' = i
            /\ i' = i + 1
            /\ pc' = "string"
            /\ UNCHANGED tokens
  /\ UNCHANGED << text, rows, drv, fn, here, called, at, skipped >>

\* The loop of lex_string goes on: not at the end, not on a quote, no newline
StringGoesOn == ~eof /\ peek(0) # "\"" /\ peek(0) # "\n"

\* while not eof and peek() != '"': if peek() == "\n": break; advance()
lex_string_step ==
  /\ pc = "string"
  /\ StringGoesOn
  /\ i' = i + 1
  /\ UNCHANGED << text, rows, drv, pc, fn, here, start, called, at, skipped, tokens >>

\* Mutant of StringEnd: the character the loop stopped on is always
\* consumed.
StringEnd_always == IF ~eof THEN i + 1 ELSE i

\* The cursor lex_string leaves: if self.peek() == '"': self.advance()
StringEnd == IF peek(0) = "\"" THEN i + 1 ELSE i

\* return (TokenType.STRING, self.text[start:self.i])
lex_string_return ==
  /\ pc = "string"
  /\ ~StringGoesOn
  /\ Return("STRING", Slice(start, StringEnd), StringEnd)
  /\ UNCHANGED << text, rows, drv, fn, here, start, called, at, skipped >>

\* --------------------------------------------- lex_operator_or_separator

\* two = self.peek() + self.peek(1)
two == Str(peek(0)) \o Str(peek(1))

\* Mutant of lex_operator_or_separator: a two-character operator is
\* returned without the advance.
lex_operator_or_separator_stuck ==
  /\ pc = "try" /\ fn = 5
  /\ IF two \in MULTI_CHAR_OPS
       THEN Return("OPERATOR", two, i)
       ELSE IF peek(0) \in SINGLE_CHAR_OPS
         THEN Return("OPERATOR", Str(peek(0)), i + 1)
         ELSE IF peek(0) \in SEPARATORS
           THEN Return("SEPARATOR", Str(peek(0)), i + 1)
           ELSE NoMatch(i)
  /\ UNCHANGED << text, rows, drv, fn, here, start, called, at, skipped >>

\* Mutant of lex_operator_or_separator: the single-character operators are
\* tried before the two-character ones.
lex_operator_or_separator_single_first ==
  /\ pc = "try" /\ fn = 5
  /\ IF peek(0) \in SINGLE_CHAR_OPS
       THEN Return("OPERATOR", Str(peek(0)), i + 1)
       ELSE IF two \in MULTI_CHAR_OPS
         THEN Return("OPERATOR", two, i + 2)
         ELSE IF peek(0) \in SEPARATORS
           THEN Return("SEPARATOR", Str(peek(0)), i + 1)
           ELSE NoMatch(i)
  /\ UNCHANGED << text, rows, drv, fn, here, start, called, at, skipped >>

\* The two-character test, then the single operators, then the separators.
lex_operator_or_separator ==
  /\ pc = "try" /\ fn = 5
  /\ IF two \in MULTI_CHAR_OPS
       THEN Return("OPERATOR", two, i + 2)
       ELSE IF peek(0) \in SINGLE_CHAR_OPS
         THEN Return("OPERATOR", Str(peek(0)), i + 1)
         ELSE IF peek(0) \in SEPARATORS
           THEN Return("SEPARATOR", Str(peek(0)), i + 1)
           ELSE NoMatch(i)
  /\ UNCHANGED << text, rows, drv, fn, here, start, called, at, skipped >>

\* ------------------------------------------- next_token's loop, fallback

\* Mutant of next_token_restore: the cursor saved is the one of the call,
\* from before skip_whitespace.
next_token_restore_called ==
  /\ pc = "nomatch"
  /\ i' = called
  /\ IF fn < 5
       THEN /\ fn' = fn + 1
            /\ pc' = "try"
       ELSE /\ pc' = "unknown"
            /\ UNCHANGED fn
  /\ UNCHANGED << text, rows, drv, here, start, called, at, skipped, tokens >>

\* else: self.i = here; the for loop goes to the next recognizer, which
\* starts with here = self.i; after the last one the fallback follows
next_token_restore ==
  /\ pc = "nomatch"
  /\ i' = here
  /\ IF fn < 5
       THEN /\ fn' = fn + 1
            /\ pc' = "try"
       ELSE /\ pc' = "unknown"
            /\ UNCHANGED fn
  /\ UNCHANGED << text, rows, drv, here, start, called, at, skipped, tokens >>

\* Mutant of next_token_unknown: ch is read after the advance.
next_token_unknown_late ==
  /\ pc = "unknown"
  /\ Return("UNKNOWN", Str(peek(1)), i + 1)
  /\ UNCHANGED << text, rows, drv, fn, here, start, called, at, skipped >>

\* ch = self.peek(); self.advance(); return (TokenType.UNKNOWN, ch)
next_token_unknown ==
  /\ pc = "unknown"
  /\ Return("UNKNOWN", Str(peek(0)), i + 1)
  /\ UNCHANGED << text, rows, drv, fn, here, start, called, at, skipped >>

\* ---------------------------------------------------------------- lex_file

\* lx = Lexer(text); rows = []: lex_file is the caller of next_token
InitFile ==
  /\ text \in Texts
  /\ i = 0
  /\ pc = "idle"
  /\ fn = 0
  /\ here = 0
  /\ start = 0
  /\ called = 0
  /\ at = 0
  /\ skipped = {}
  /\ tokens = << >>
  /\ rows = << >>
  /\ drv = "loop"

\* tok.name.lower()
lower(name) ==
  CASE name = "KEYWORD" -> "keyword"
    [] name = "IDENTIFIER" -> "identifier"
    [] name = "INTEGER" -> "integer"
    [] name = "REAL" -> "real"
    [] name = "OPERATOR" -> "operator"
    [] name = "SEPARATOR" -> "separator"
    [] name = "STRING" -> "string"
    [] name = "COMMENT" -> "comment"
    [] name = "EOF" -> "eof"
    [] name = "UNKNOWN" -> "unknown"

\* while True: tok, lex = lx.next_token() -- the call is made
lex_file_call ==
  /\ drv = "loop"
  /\ pc = "idle"
  /\ pc' = "loop"
  /\ called' = i
  /\ at' = i
  /\ drv' = "got"
  /\ UNCHANGED << text, rows, i, fn, here, start, skipped, tokens >>

\* if tok == TokenType.EOF: brea -- the name brea is bound nowhere, so
\* evaluating it raises NameError; nothing in lex_file catches it, and the
\* statements after the loop (the writing of the output) are not run.
lex_file_eof ==
  /\ drv = "got"
  /\ pc = "idle"
  /\ tokens[Len(tokens)].type = "EOF"
  /\ drv' = "raised"
  /\ UNCHANGED << text, rows, i, pc, fn, here, start, called, at, skipped,
                  tokens >>

\* if tok == TokenType.COMMENT: continue
lex_file_comment ==
  /\ drv = "got"
  /\ pc = "idle"
  /\ tokens[Len(tokens)].type = "COMMENT"
  /\ drv' = "loop"
  /\ UNCHANGED << text, rows, i, pc, fn, here, start, called, at, skipped,
                  tokens >>

\* rows.append((tok.name.lower(), lex))
lex_file_append ==
  /\ drv = "got"
  /\ pc = "idle"
  /\ tokens[Len(tokens)].type \notin { "EOF", "COMMENT" }
  /\ rows' = Append(rows, << lower(tokens[Len(tokens)].type),
                             tokens[Len(tokens)].lexeme >>)
  /\ drv' = "loop"
  /\ UNCHANGED << text, i, pc, fn, here, start, called, at, skipped, tokens >>

\* --------------------------------------------------------- specification

Next ==
  \/ next_token_call
  \/ next_token_eof
  \/ next_token_loop
  \/ skip_whitespace_step
  \/ skip_whitespace_done
  \/ skip_comments_line
  \/ skip_comments_line_step
  \/ skip_comments_line_return
  \/ skip_comments_block
  \/ skip_comments_block_step
  \/ skip_comments_block_return
  \/ next_token_break
  \/ next_token_dispatch
  \/ lex_real_enter
  \/ lex_real_int_step
  \/ lex_real_dot
  \/ lex_real_frac
  \/ lex_real_frac_step
  \/ lex_real_exp
  \/ lex_real_return
  \/ lex_real_exp_sign
  \/ lex_real_exp_first
  \/ lex_real_exp_step
  \/ lex_real_exp_return
  \/ lex_integer_enter
  \/ lex_integer_zero
  \/ lex_integer_zero_decide
  \/ lex_integer_nonzero
  \/ lex_integer_reject
  \/ lex_integer_run_step
  \/ lex_integer_run_decide
  \/ lex_identifier_enter
  \/ lex_identifier_step
  \/ lex_identifier_return
  \/ lex_string_enter
  \/ lex_string_step
  \/ lex_string_return
  \/ lex_operator_or_separator
  \/ next_token_restore
  \/ next_token_unknown

Spec == Init /\ [][Next]_vars

\* lex_file driving one Lexer: the loop of lex_file has no break, so the only
\* way out of it is the exception of lex_file_eof.
NextFile ==
  \/ lex_file_call
  \/ lex_file_eof
  \/ lex_file_comment
  \/ lex_file_append
  \/ next_token_eof
  \/ next_token_loop
  \/ skip_whitespace_step
  \/ skip_whitespace_done
  \/ skip_comments_line
  \/ skip_comments_line_step
  \/ skip_comments_line_return
  \/ skip_comments_block
  \/ skip_comments_block_step
  \/ skip_comments_block_return
  \/ next_token_break
  \/ next_token_dispatch
  \/ lex_real_enter
  \/ lex_real_int_step
  \/ lex_real_dot
  \/ lex_real_frac
  \/ lex_real_frac_step
  \/ lex_real_exp
  \/ lex_real_return
  \/ lex_real_exp_sign
  \/ lex_real_exp_first
  \/ lex_real_exp_step
  \/ lex_real_exp_return
  \/ lex_integer_enter
  \/ lex_integer_zero
  \/ lex_integer_zero_decide
  \/ lex_integer_nonzero
  \/ lex_integer_reject
  \/ lex_integer_run_step
  \/ lex_integer_run_decide
  \/ lex_identifier_enter
  \/ lex_identifier_step
  \/ lex_identifier_return
  \/ lex_string_enter
  \/ lex_string_step
  \/ lex_string_return
  \/ lex_operator_or_separator
  \/ next_token_restore
  \/ next_token_unknown

SpecFile == InitFile /\ [][NextFile]_vars

\* ------------------------------------------------------------ the claims

Tok(k) == tokens[k]

\* The tokens change only when a call returns, which leaves pc = "idle":
\* a statement about the returned tokens is stated for the states between
\* calls.
Returned == IF pc = "idle" THEN 1..Len(tokens) ELSE {}

NonEofTokens == { k \in 1..Len(tokens) : Tok(k).type # "EOF" }

\* The lexemes of the first k returned tokens, concatenated.
RECURSIVE Lexemes(_)
Lexemes(k) == IF k = 0 THEN << >> ELSE Lexemes(k - 1) \o Tok(k).lexeme

\* The first p characters of the text without the positions in skipped.
RECURSIVE Kept(_)
Kept(p) ==
  IF p = 0 THEN << >>
  ELSE IF (p - 1) \in skipped THEN Kept(p - 1)
  ELSE Append(Kept(p - 1), text[p])

\* C1: between calls the lexemes returned so far, concatenated, are the
\* consumed part of the text without the characters skip_whitespace
\* consumed; every lexeme is the substring its call consumed after the
\* whitespace, a call starts where the one before ended, everything between
\* two tokens is whitespace that skip_whitespace consumed, and once EOF is
\* returned the consumed part is the whole text.
C1_LosslessPartition ==
  pc = "idle" =>
    /\ Lexemes(Len(tokens)) = Kept(i)
    /\ \A k \in 1..Len(tokens) :
         /\ Tok(k).called <= Tok(k).at /\ Tok(k).at <= Tok(k).end
         /\ Tok(k).lexeme = SubSeq(text, Tok(k).at + 1, Tok(k).end)
         /\ Tok(k).called = (IF k = 1 THEN 0 ELSE Tok(k - 1).end)
         /\ \A p \in Tok(k).called .. (Tok(k).at - 1) :
              isspace(text[p + 1]) /\ p \in skipped
    /\ \A p \in skipped : isspace(text[p + 1])
    /\ (EofTokens # {} => i = n)

\* C1 witness: lexing has finished on a text with skipped whitespace, a
\* Comment token and an Unknown token.
C1_Witness ==
  /\ pc = "idle"
  /\ EofTokens # {}
  /\ skipped # {}
  /\ \E k \in NonEofTokens : Tok(k).type = "COMMENT"
  /\ \E k \in NonEofTokens : Tok(k).type = "UNKNOWN"

\* C2: every token other than EOF has a non-empty lexeme and its call left
\* the cursor strictly greater than it found it, so at most n tokens other
\* than EOF are returned; a call that has started can always take a step.
C2_Progress ==
  /\ \A k \in Returned :
       Tok(k).type # "EOF" => Tok(k).lexeme # << >> /\ Tok(k).end > Tok(k).called
  /\ Cardinality(NonEofTokens) <= n
  /\ (pc # "idle" => ENABLED Next)

\* C2 witness: lexing has finished with as many tokens as the text has
\* characters.
C2_Witness ==
  /\ pc = "idle"
  /\ EofTokens # {}
  /\ n >= 3
  /\ Cardinality(NonEofTokens) = n

\* C3: the cursor is in [0, length] in every state, inside the recognizers
\* too.
C3_CursorInRange == 0 <= i /\ i <= n

\* C3 witness: lex_real has tentatively consumed digits and a dot up to the
\* end of the text, which it will give back.
C3_Witness == pc = "real_dot" /\ i = n /\ start < i

\* ------------------------------------------------ the numeric grammars

\* text[a..b] (positions counted from 1) is a non-empty run of digits.
Digits(a, b) == a <= b /\ \A p \in a..b : is_digit(text[p])

\* The e characters after position s are digit+ '.' digit+.
PlainRealAt(s, e) ==
  \E d \in (s + 2)..(e - 1) :
    text[d] = "." /\ Digits(s + 1, d - 1) /\ Digits(d + 1, e)

\* The e characters after position s are
\* digit+ '.' digit+ ('e'|'E') ('+'|'-')? digit+.
ExponentRealAt(s, e) ==
  \E m \in (s + 4)..(e - 1) :
    /\ text[m] \in { "e", "E" }
    /\ PlainRealAt(s, m - 1)
    /\ \/ Digits(m + 1, e)
       \/ text[m + 1] \in { "+", "-" } /\ Digits(m + 2, e)

\* The ends of the prefixes at position s that match the grammar of a real.
RealEnds(s) == { e \in (s + 1)..n : PlainRealAt(s, e) \/ ExponentRealAt(s, e) }

PlainEnds(s) == { e \in (s + 1)..n : PlainRealAt(s, e) }

Longest(S) == CHOOSE e \in S : \A f \in S : f <= e

\* The longest digit+ '.' digit+ at s is followed by 'e' or 'E' that no
\* (optionally signed) digit follows.
DanglingExponent(s) ==
  /\ PlainEnds(s) # {}
  /\ Longest(PlainEnds(s)) < n
  /\ text[Longest(PlainEnds(s)) + 1] \in { "e", "E" }
  /\ \A e \in RealEnds(s) : e <= Longest(PlainEnds(s))

\* The length of the run of decimal digits '0'..'9' the text starts with.
LeadingDigits ==
  Cardinality({ p \in 1..n : \A q \in 1..p : text[q] \in AsciiDigits })

\* The number of '0' characters the text starts with.
LeadingZeros == Cardinality({ p \in 1..n : \A q \in 1..p : text[q] = "0" })

\* C4 as claimed: on a text that starts with a run of decimal digits whose
\* first is not '0', followed by a '.' that no digit follows, the first token
\* is Integer with the run as lexeme and the second is Unknown ".".
C4_IntegerThenUnknownDot ==
  ( /\ LeadingDigits >= 1
    /\ text[1] # "0"
    /\ LeadingDigits < n
    /\ text[LeadingDigits + 1] = "."
    /\ (LeadingDigits + 2 <= n => ~is_digit(text[LeadingDigits + 2])) )
  =>
    /\ Len(tokens) >= 1 =>
         /\ Tok(1).type = "INTEGER"
         /\ Tok(1).lexeme = SubSeq(text, 1, LeadingDigits)
    /\ Len(tokens) >= 2 =>
         /\ Tok(2).type = "UNKNOWN"
         /\ Tok(2).lexeme = << "." >>

\* C5 as claimed: a token returned where the text begins with a match of
\* the real grammar is a Real token whose lexeme is the longest match.
C5_RealLongestPrefix ==
  \A k \in Returned :
    RealEnds(Tok(k).at) # {} =>
      /\ Tok(k).type = "REAL"
      /\ Tok(k).end = Longest(RealEnds(Tok(k).at))
      /\ Tok(k).lexeme = SubSeq(text, Tok(k).at + 1, Longest(RealEnds(Tok(k).at)))

\* C5 amended: a token returned where the text begins with a match of the
\* real grammar is a Real token whose lexeme is the longest match, unless
\* the longest digit+ '.' digit+ there is followed by 'e' or 'E' without its
\* (optionally signed) digits: then the token returned is not Real and is
\* one character long.
C5_RealUnlessDanglingExponent ==
  \A k \in Returned :
    RealEnds(Tok(k).at) # {} =>
      IF DanglingExponent(Tok(k).at)
        THEN /\ Tok(k).type \in { "UNKNOWN", "INTEGER" }
             /\ Tok(k).end = Tok(k).at + 1
        ELSE /\ Tok(k).type = "REAL"
             /\ Tok(k).end = Longest(RealEnds(Tok(k).at))
             /\ Tok(k).lexeme =
                  SubSeq(text, Tok(k).at + 1, Longest(RealEnds(Tok(k).at)))

\* C5 witness: a Real token with a signed exponent has been returned, on a
\* text that goes on after it.
C5_Witness ==
  \E k \in 1..Len(tokens) :
    /\ Tok(k).type = "REAL"
    /\ \E p \in 1..Len(Tok(k).lexeme) : Tok(k).lexeme[p] \in { "+", "-" }
    /\ Tok(k).end < n

\* lex_real returns a token at position s.
RealAccepted(s) == RealEnds(s) # {} /\ ~DanglingExponent(s)

\* The cursor after whitespace skipping was on a '0' that no '.' follows.
ZeroWithoutDot(k) ==
  /\ Tok(k).at < n
  /\ text[Tok(k).at + 1] = "0"
  /\ (Tok(k).at + 2 <= n => text[Tok(k).at + 2] # ".")

\* C6 as claimed: a token returned where the cursor was on a '0' that no
\* '.' follows is the Integer "0", one character long.
C6_ZeroIsStandalone ==
  \A k \in Returned :
    ZeroWithoutDot(k) =>
      /\ Tok(k).type = "INTEGER"
      /\ Tok(k).lexeme = << "0" >>
      /\ Tok(k).end = Tok(k).at + 1

\* C6 amended: a token returned where the cursor was on a '0' that no '.'
\* follows is the Integer "0", one character long, unless the digits
\* starting at that '0' begin a real number that lex_real accepts (digit+
\* '.' digit+ without a dangling exponent mark): then it is that Real token.
C6_ZeroUnlessReal ==
  \A k \in Returned :
    ZeroWithoutDot(k) =>
      IF RealAccepted(Tok(k).at)
        THEN /\ Tok(k).type = "REAL"
             /\ Tok(k).end = Longest(RealEnds(Tok(k).at))
        ELSE /\ Tok(k).type = "INTEGER"
             /\ Tok(k).lexeme = << "0" >>
             /\ Tok(k).end = Tok(k).at + 1

\* C6 witness: the Integer "0" has been returned for a '0' that a digit
\* follows.
C6_Witness ==
  \E k \in 1..Len(tokens) :
    /\ ZeroWithoutDot(k)
    /\ Tok(k).at + 2 <= n
    /\ is_digit(text[Tok(k).at + 2])
    /\ Tok(k).type = "INTEGER"

\* The token C7 expects as the k-th of a text of decimal digits: an Integer
\* "0" for each leading '0', one Integer for the rest of the run, then EOF.
C7_Expected(k) ==
  IF k <= LeadingZeros THEN << "INTEGER", << "0" >> >>
  ELSE IF k = LeadingZeros + 1 /\ LeadingZeros < n
    THEN << "INTEGER", SubSeq(text, LeadingZeros + 1, n) >>
    ELSE << "EOF", << >> >>

\* C7: on a text that is only a run of decimal digits '0'..'9' the tokens
\* are an Integer "0" for each leading '0', then one Integer holding the
\* rest of the run from the first nonzero digit (the whole run when the text
\* starts with a nonzero digit), then EOF.
C7_DigitRunTokens ==
  (n >= 1 /\ LeadingDigits = n) =>
    \A k \in Returned :
      << Tok(k).type, Tok(k).lexeme >> = C7_Expected(k)

\* C7 witness: a run with a leading '0' and at least two more digits has
\* been lexed to EOF.
C7_Witness ==
  /\ n >= 3 /\ LeadingDigits = n
  /\ LeadingZeros >= 1 /\ LeadingZeros + 2 <= n
  /\ EofTokens # {}

\* C8: a call returns EOF, with an empty lexeme, exactly when every
\* character from the cursor of the call to the end of the text is
\* whitespace; the empty text gives EOF in the first call.
C8_EofIffOnlyWhitespace ==
  \A k \in Returned :
    /\ Tok(k).type = "EOF" <=>
         \A p \in (Tok(k).called + 1)..n : isspace(text[p])
    /\ Tok(k).type = "EOF" => Tok(k).lexeme = << >>

\* C8 witness: a call that started before whitespace at the end of the text
\* has returned EOF after a token.
C8_Witness ==
  \E k \in EofTokens : k >= 2 /\ Tok(k).called < n

\* C9: after EOF is returned every later call returns EOF with an empty
\* lexeme, and the cursor stays at the length of the text.
C9_EofIsSticky ==
  /\ \A j \in Returned :
       Tok(j).type = "EOF" =>
       /\ Tok(j).end = n
       /\ \A k \in (j + 1)..Len(tokens) :
            /\ Tok(k).type = "EOF"
            /\ Tok(k).lexeme = << >>
            /\ Tok(k).called = n
            /\ Tok(k).end = n
  /\ (EofTokens # {} => i = n)

\* C9 witness: next_token has returned EOF in two calls on a text that is
\* not empty.
C9_Witness == n >= 1 /\ Cardinality(EofTokens) >= 2

\* The characters an identifier goes on with, as C10 states them.
C10_Follows(ch) == is_letter(ch) \/ is_digit(ch) \/ ch = "_"

\* C10 as claimed: the lexeme of a Keyword or Identifier token starts with
\* a letter and goes on with letters, digits and underscores only, the
\* character after it is none of these, and the token is a Keyword exactly
\* when the lexeme is in KEYWORDS.
C10_IdentifierShape ==
  \A k \in Returned :
    Tok(k).type \in { "KEYWORD", "IDENTIFIER" } =>
      /\ Tok(k).lexeme # << >>
      /\ is_letter(Tok(k).lexeme[1])
      /\ \A p \in 2..Len(Tok(k).lexeme) : C10_Follows(Tok(k).lexeme[p])
      /\ (Tok(k).end < n => ~C10_Follows(text[Tok(k).end + 1]))
      /\ (Tok(k).type = "KEYWORD" <=> Tok(k).lexeme \in KEYWORDS)

\* The character at position p counted from 0, "" past the end of the text.
CharAt(p) == IF p < n THEN text[p + 1] ELSE ""

\* The two characters at position p are a multi-character operator.
MultiOpAt(p) == p + 2 <= n /\ << CharAt(p), CharAt(p + 1) >> \in MULTI_CHAR_OPS

\* C11: a token returned where the two characters at the cursor form a
\* multi-character operator is one Operator token with these two characters
\* as lexeme; so no one-character Operator token is returned there.
C11_LongestOperator ==
  \A k \in Returned :
    /\ MultiOpAt(Tok(k).at) =>
         /\ Tok(k).type = "OPERATOR"
         /\ Tok(k).lexeme = << CharAt(Tok(k).at), CharAt(Tok(k).at + 1) >>
         /\ Tok(k).end = Tok(k).at + 2
    /\ (Tok(k).type = "OPERATOR" /\ Len(Tok(k).lexeme) = 1) =>
         ~MultiOpAt(Tok(k).at)

\* C11 witness: a two-character operator has been returned right after a
\* one-character operator.
C11_Witness ==
  \E k \in 2..Len(tokens) :
    /\ MultiOpAt(Tok(k).at) /\ Tok(k).type = "OPERATOR"
    /\ Tok(k - 1).type = "OPERATOR" /\ Len(Tok(k - 1).lexeme) = 1

\* The positions from p on that hold a newline.
NewlinesFrom(p) == { q \in p..(n - 1) : CharAt(q) = "\n" }

Least(S) == CHOOSE e \in S : \A f \in S : e <= f

\* Where a line comment that starts at p ends: the next newline, or the end
\* of the text.
LineCommentEnd(p) == IF NewlinesFrom(p) = {} THEN n ELSE Least(NewlinesFrom(p))

\* C12: a token returned where the cursor was at "//" is a Comment whose
\* lexeme runs from the "//" up to, not including, the next newline, or to
\* the end of the text without one; the cursor is left on the newline.
C12_LineComment ==
  \A k \in Returned :
    (CharAt(Tok(k).at) = "/" /\ CharAt(Tok(k).at + 1) = "/") =>
      /\ Tok(k).type = "COMMENT"
      /\ Tok(k).end = LineCommentEnd(Tok(k).at)
      /\ Tok(k).lexeme = SubSeq(text, Tok(k).at + 1, LineCommentEnd(Tok(k).at))
      /\ \A p \in 1..Len(Tok(k).lexeme) : Tok(k).lexeme[p] # "\n"
      /\ (k = Len(tokens) => i = Tok(k).end)

\* C12 witness: a line comment that a newline ends has been returned, with
\* the cursor left on the newline.
C12_Witness ==
  /\ pc = "idle"
  /\ Len(tokens) >= 1
  /\ Tok(Len(tokens)).type = "COMMENT"
  /\ CharAt(Tok(Len(tokens)).at + 1) = "/"
  /\ Len(Tok(Len(tokens)).lexeme) >= 3
  /\ CharAt(i) = "\n"

\* The positions q >= p at which "*/" stands.
ClosersFrom(p) == { q \in p..(n - 2) : CharAt(q) = "*" /\ CharAt(q + 1) = "/" }

\* Where a block comment that starts at p ends: after the first "*/" at or
\* after p + 2, or at the end of the text without one.
BlockCommentEnd(p) ==
  IF ClosersFrom(p + 2) = {} THEN n ELSE Least(ClosersFrom(p + 2)) + 2

\* C13: a token returned where the cursor was at "/*" is a Comment whose
\* lexeme ends with the first "*/" that starts two or more characters after
\* the opening; without one the lexeme is the rest of the text, the cursor
\* ends at the length of the text and the next call returns EOF.
C13_BlockComment ==
  \A k \in Returned :
    (CharAt(Tok(k).at) = "/" /\ CharAt(Tok(k).at + 1) = "*") =>
      /\ Tok(k).type = "COMMENT"
      /\ Tok(k).end = BlockCommentEnd(Tok(k).at)
      /\ Tok(k).lexeme = SubSeq(text, Tok(k).at + 1, BlockCommentEnd(Tok(k).at))
      /\ (ClosersFrom(Tok(k).at + 2) = {} /\ k < Len(tokens)) =>
           Tok(k + 1).type = "EOF"

\* C13 witness: an unterminated block comment whose '*' is followed by '/'
\* only as part of the opening has been returned, and EOF after it.
C13_Witness ==
  \E k \in 1..Len(tokens) :
    /\ CharAt(Tok(k).at) = "/" /\ CharAt(Tok(k).at + 1) = "*"
    /\ CharAt(Tok(k).at + 2) = "/"
    /\ ClosersFrom(Tok(k).at + 2) = {}
    /\ k < Len(tokens)

\* The positions q >= p that hold a double quote or a newline.
StringStopsFrom(p) ==
  { q \in p..(n - 1) : CharAt(q) = "\"" \/ CharAt(q) = "\n" }

\* A double quote comes after the opening one at p before any newline and
\* before the end of the text.
ClosingQuoteAfter(p) ==
  /\ StringStopsFrom(p + 1) # {}
  /\ CharAt(Least(StringStopsFrom(p + 1))) = "\""

\* C14: the lexeme of a String token starts with a double quote and holds
\* no newline and no double quote strictly inside it; it ends with a closing
\* quote exactly when a double quote comes after the opening one before any
\* newline and before the end of the text; when a newline comes first the
\* token ends on the newline, which is not consumed, and when the text ends
\* first the lexeme runs to the end of the text.
C14_StringShape ==
  \A k \in Returned :
    Tok(k).type = "STRING" =>
      LET lx == Tok(k).lexeme
          closed == Len(lx) >= 2 /\ lx[Len(lx)] = "\""
      IN
        /\ lx = SubSeq(text, Tok(k).at + 1, Tok(k).end)
        /\ Len(lx) >= 1 /\ lx[1] = "\""
        /\ \A p \in 1..Len(lx) : lx[p] # "\n"
        /\ \A p \in 2..(Len(lx) - 1) : lx[p] # "\""
        /\ closed <=> ClosingQuoteAfter(Tok(k).at)
        /\ ~closed =>
             IF StringStopsFrom(Tok(k).at + 1) = {}
               THEN Tok(k).end = n
               ELSE /\ CharAt(Tok(k).end) = "\n"
                    /\ Tok(k).end = Least(StringStopsFrom(Tok(k).at + 1))

\* C14 witness: an unterminated String token that a newline ended has been
\* returned after a closed String token.
C14_Witness ==
  \E k \in 2..Len(tokens) :
    /\ Tok(k).type = "STRING" /\ CharAt(Tok(k).end) = "\n"
    /\ Tok(k - 1).type = "STRING" /\ Len(Tok(k - 1).lexeme) >= 2

\* C17: in every step the text stays as it is, and whenever a recognizer or
\* the Unknown fallback is about to run, the cursor is the one the dispatch
\* loop saved when the first recognizer started, whatever the recognizers
\* that failed before had consumed.
C17_BacktrackRestores ==
  [][ /\ text' = text
      /\ pc' \in { "try", "unknown" } => i' = here' /\ here' = at' ]_vars

\* C17 witness: lex_integer is about to run where lex_real has consumed
\* digits, a dot, digits and an exponent mark and then failed.
C17_Witness ==
  /\ pc = "try" /\ fn = 2
  /\ DanglingExponent(here)
  /\ i = here

\* The lexeme matches '0' | [1-9] digit*.
IntegerShape(lx) ==
  /\ Len(lx) >= 1
  /\ \/ lx = << "0" >>
     \/ /\ lx[1] \in AsciiDigits \ { "0" }
        /\ \A p \in 2..Len(lx) : is_digit(lx[p])

C19_UnknownIsUnrecognizable ==
  \A k \in Returned :
    Tok(k).type = "UNKNOWN" =>
      /\ Len(Tok(k).lexeme) = 1
      /\ Tok(k).lexeme[1] \notin AsciiDigits
      /\ ~is_letter(Tok(k).lexeme[1])
      /\ Tok(k).lexeme[1] # "\""
      /\ Tok(k).lexeme[1] \notin SINGLE_CHAR_OPS
      /\ Tok(k).lexeme[1] \notin SEPARATORS

\* C20: a token returned where the cursor was on a '/' that '/' or '*'
\* follows is a Comment token, never the Operator "/".
C20_CommentBeforeOperator ==
  \A k \in Returned :
    (CharAt(Tok(k).at) = "/" /\ CharAt(Tok(k).at + 1) \in { "/", "*" }) =>
      /\ Tok(k).type = "COMMENT"
      /\ ~(Tok(k).type = "OPERATOR" /\ Tok(k).lexeme = << "/" >>)

\* C20 witness: the Operator "/" and then a Comment have been returned.
C20_Witness ==
  \E k \in 2..Len(tokens) :
    /\ Tok(k).type = "COMMENT"
    /\ Tok(k - 1).type = "OPERATOR" /\ Tok(k - 1).lexeme = << "/" >>

\* C15: lex_file calls next_token until it observes EOF, then leaves its loop
\* and writes the output; the rows are, in order, exactly the tokens returned
\* before EOF whose kind is not Comment, and no row is a Comment or EOF row.

\* The number of returned tokens lex_file has looked at.
Handled == IF drv = "got" /\ pc = "idle" THEN Len(tokens) - 1 ELSE Len(tokens)

RECURSIVE RowsUpTo(_)
RowsUpTo(k) ==
  IF k = 0 THEN << >>
  ELSE IF tokens[k].type \in { "COMMENT", "EOF" } THEN RowsUpTo(k - 1)
  ELSE Append(RowsUpTo(k - 1), << lower(tokens[k].type), tokens[k].lexeme >>)

C15_RowsAreKeptTokens ==
  /\ rows = RowsUpTo(Handled)
  /\ \A r \in 1..Len(rows) : rows[r][1] \notin { "comment", "eof" }

\* C15 as claimed: the rows are the kept tokens, and observing EOF takes
\* lex_file out of its loop to the writing of the output, not to an exception.
C15_DriverWritesRows ==
  /\ C15_RowsAreKeptTokens
  /\ drv # "raised"

====
